---- MODULE Spec2Model ----
(***************************************************************************)
(* Model of the tndrly client core: the Virtual TestNet request/response   *)
(* types (src/src/vnets/types.rs) and the simulation API operations        *)
(* (src/src/simulation/api.rs).                                            *)
(***************************************************************************)
EXTENDS Integers, Sequences, FiniteSets, TLC

VARIABLES
    vreq,        \* the CreateVNetRequest under construction (Option)
    vhist,       \* history of the builder calls made on vreq
    sent,        \* the CreateVNetRequest that was sent to the service (Option)
    wire,        \* the JSON object the service answered with (Option)
    vnet,        \* the decoded response: fork_config and virtual_network_config (Option)
    got_chain_id, \* what VirtualNetworkConfigResponse::chain_id() returned (Option of Option)
    rpcs_wire,   \* the JSON value of the "rpcs" key of a VNet answer (Option)
    rpcs,        \* VNet::rpcs as deserialize_rpcs decoded it (Option of Result)
    got_public,  \* what VNetRpcs::public() returned (Option of Option)
    got_admin,   \* what VNetRpcs::admin() returned (Option of Option)
    del_req,     \* the DeleteVNetsRequest last constructed (Option)
    del_call,    \* the constructor call that made del_req (Option)
    sim_req,     \* the SimulationRequest under construction (Option)
    wei_arg,     \* the argument of the last value_wei call (Option)
    ov_touched,  \* the addresses given to an override call so far
    ov_balance,  \* <<address, balance>>: the balance last set for address
    ov_code,     \* <<address, code>>: the code last set for address
    ov_storage,  \* <<address, slot, value>>: the value last inserted at slot
    api_pc,      \* "idle", "awaiting" (suspended on the transport) or "done"
    api_call,    \* the SimulationApi operation invoked and its argument (Option)
    transport_log, \* the calls made to the transport, in order
    service_reply, \* what the service answered, as the transport saw it (Option)
    api_result,  \* what the operation returned to its caller (Option)
    vsim,        \* the VNetSimulationRequest under construction (Option)
    vsim_hist    \* the builder calls made on vsim (Option)

vnetVars == <<vreq, vhist>>
respVars == <<sent, wire, vnet, got_chain_id>>
rpcVars == <<rpcs_wire, rpcs, got_public, got_admin>>
delVars == <<del_req, del_call>>
simVars == <<sim_req, wei_arg, ov_touched, ov_balance, ov_code, ov_storage>>
apiVars == <<api_pc, api_call, transport_log, service_reply, api_result>>
vsimVars == <<vsim, vsim_hist>>
vars == <<vnetVars, respVars, rpcVars, delVars, simVars, apiVars, vsimVars>>

(***************************************************************************)
(* Rust's Option<T>.                                                       *)
(***************************************************************************)
None == [tag |-> "None"]
Some(v) == [tag |-> "Some", value |-> v]

(***************************************************************************)
(* Rust's Result<T, E>.                                                    *)
(***************************************************************************)
Ok(v) == [tag |-> "Ok", value |-> v]
Err(e) == [tag |-> "Err", error |-> e]

(***************************************************************************)
(* Bounds of the model.                                                    *)
(***************************************************************************)
MaxChainId == 2
MaxBlock == 1
MaxFee == 1
MaxEndpoints == 2
MaxDeleteIds == 4
MaxWei == 300
MaxIdLen == 2
MaxBundle == 3
MaxPage == 1
MaxTxType == 3
MaxGas == 1
MaxNonce == 1

ChainIds == 0..MaxChainId
Blocks == 0..MaxBlock
Fees == 0..MaxFee
Slugs == {"my-net", "x"}
DisplayNames == {"My Net", ""}
Visibilities == {"abi", "src"}

(***************************************************************************)
(* CreateVNetRequest and its builder, vnets/types.rs:29-85.                *)
(***************************************************************************)
\* Mutant: the chain id is hard-wired to mainnet instead of following network_id.
CreateVNetRequest_new_mainnet(slug, display_name, network_id) ==
    [ slug |-> slug,
      display_name |-> display_name,
      fork_config |-> [network_id |-> network_id, block_number |-> None],
      virtual_network_config |-> [chain_id |-> 1, base_fee_per_gas |-> None],
      sync_state_config |-> None,
      explorer_page_config |-> None ]

CreateVNetRequest_new(slug, display_name, network_id) ==
    [ slug |-> slug,
      display_name |-> display_name,
      fork_config |-> [network_id |-> network_id, block_number |-> None],
      virtual_network_config |-> [chain_id |-> network_id, base_fee_per_gas |-> None],
      sync_state_config |-> None,
      explorer_page_config |-> None ]

CreateVNetRequest_block_number(self, block) ==
    [self EXCEPT !.fork_config.block_number = Some(block)]

\* Mutant: chain_id(..) keeps the fork's network id "in sync" with the chain id.
CreateVNetRequest_chain_id_synced(self, chain_id) ==
    [self EXCEPT !.virtual_network_config.chain_id = chain_id,
                 !.fork_config.network_id = chain_id]

CreateVNetRequest_chain_id(self, chain_id) ==
    [self EXCEPT !.virtual_network_config.chain_id = chain_id]

CreateVNetRequest_base_fee_per_gas(self, fee) ==
    [self EXCEPT !.virtual_network_config.base_fee_per_gas = Some(fee)]

CreateVNetRequest_sync_state(self, enabled) ==
    [self EXCEPT !.sync_state_config = Some([enabled |-> enabled])]

CreateVNetRequest_explorer_page(self, enabled, verification_visibility) ==
    [self EXCEPT !.explorer_page_config =
        Some([enabled |-> enabled, verification_visibility |-> verification_visibility])]

(***************************************************************************)
(* JSON values as the service sends them.  JAbsent is not a value: it is   *)
(* what looking up a key that the object does not carry gives.             *)
(***************************************************************************)
JNull == [j |-> "null"]
JNum(n) == [j |-> "num", n |-> n]
JStr(s) == [j |-> "str", s |-> s]
JArr(items) == [j |-> "arr", items |-> items]
JAbsent == [j |-> "absent"]
\* The object carrying the keys of `pairs` whose value is not JAbsent.
JObj(pairs) ==
    [j |-> "obj",
     fields |-> [k \in {x \in DOMAIN pairs : pairs[x] # JAbsent} |-> pairs[k]]]
JGet(obj, key) == IF key \in DOMAIN obj.fields THEN obj.fields[key] ELSE JAbsent

(***************************************************************************)
(* Deserialize, as derived for the response types, vnets/types.rs:98-149.  *)
(* An Option field marked #[serde(default)] decodes to None when its key   *)
(* is missing or null; a field without a default must be present.          *)
(***************************************************************************)
de_u64(v) ==
    IF v.j = "num" /\ v.n >= 0 THEN Ok(v.n) ELSE Err("invalid type")

\* `decoded` is what the field's own Deserialize makes of v.
de_Option(v, decoded) ==
    IF v = JAbsent \/ v = JNull THEN Ok(None)
    ELSE IF decoded.tag = "Ok" THEN Ok(Some(decoded.value)) ELSE decoded

de_String(v) == IF v.j = "str" THEN Ok(v.s) ELSE Err("invalid type")

de_ChainConfig(v) ==
    IF v.j # "obj" THEN Err("invalid type")
    ELSE IF JGet(v, "chain_id") = JAbsent THEN Err("missing field chain_id")
    ELSE LET c == de_u64(JGet(v, "chain_id"))
         IN IF c.tag = "Ok" THEN Ok([chain_id |-> c.value]) ELSE c

de_Accounts(v) ==
    IF v.j = "arr" THEN Ok(v.items) ELSE Err("invalid type")

de_VirtualNetworkConfigResponse(v) ==
    IF v.j # "obj" THEN Err("invalid type")
    ELSE LET cc == de_Option(JGet(v, "chain_config"),
                             de_ChainConfig(JGet(v, "chain_config")))
             bf == de_Option(JGet(v, "base_fee_per_gas"),
                             de_u64(JGet(v, "base_fee_per_gas")))
             ac == de_Option(JGet(v, "accounts"), de_Accounts(JGet(v, "accounts")))
         IN IF cc.tag = "Err" THEN cc
            ELSE IF bf.tag = "Err" THEN bf
            ELSE IF ac.tag = "Err" THEN ac
            ELSE Ok([chain_config |-> cc.value,
                     base_fee_per_gas |-> bf.value,
                     accounts |-> ac.value])

de_ForkConfigResponse(v) ==
    IF v.j # "obj" THEN Err("invalid type")
    ELSE IF JGet(v, "network_id") = JAbsent THEN Err("missing field network_id")
    ELSE LET n == de_u64(JGet(v, "network_id"))
             b == de_Option(JGet(v, "block_number"),
                            de_String(JGet(v, "block_number")))
         IN IF n.tag = "Err" THEN n
            ELSE IF b.tag = "Err" THEN b
            ELSE Ok([network_id |-> n.value, block_number |-> b.value])

\* The two configuration members of VNet, vnets/types.rs:180-184.
de_VNet(v) ==
    IF v.j # "obj" THEN Err("invalid type")
    ELSE IF JGet(v, "fork_config") = JAbsent THEN Err("missing field fork_config")
    ELSE IF JGet(v, "virtual_network_config") = JAbsent
         THEN Err("missing field virtual_network_config")
    ELSE LET f == de_ForkConfigResponse(JGet(v, "fork_config"))
             c == de_VirtualNetworkConfigResponse(JGet(v, "virtual_network_config"))
         IN IF f.tag = "Err" THEN f
            ELSE IF c.tag = "Err" THEN c
            ELSE Ok([fork_config |-> f.value, virtual_network_config |-> c.value])

\* Mutant: a missing chain_config reads as chain id zero (unwrap_or_default).
VirtualNetworkConfigResponse_chain_id_or_zero(self) ==
    Some(IF self.chain_config = None THEN 0 ELSE self.chain_config.value.chain_id)

\* VirtualNetworkConfigResponse::chain_id, vnets/types.rs:139-141
VirtualNetworkConfigResponse_chain_id(self) ==
    IF self.chain_config = None THEN None
    ELSE Some(self.chain_config.value.chain_id)

(***************************************************************************)
(* What the service may answer a create with.                              *)
(***************************************************************************)
ChainConfigWires ==
    {JAbsent, JNull, JObj([other |-> JNum(0)])}
        \cup {JObj([chain_id |-> JNum(c)]) : c \in ChainIds}
BaseFeeWires == {JAbsent, JNull} \cup {JNum(f) : f \in Fees}
AccountsWires == {JAbsent, JArr(<<>>)}
BlockNumberWires == {JAbsent, JStr("0x170abab")}

VNetWires ==
    { JObj([fork_config |->
                JObj([network_id |-> JNum(n), block_number |-> b]),
            virtual_network_config |->
                JObj([chain_config |-> cc, base_fee_per_gas |-> bf, accounts |-> ac])]) :
        n \in ChainIds, b \in BlockNumberWires, cc \in ChainConfigWires,
        bf \in BaseFeeWires, ac \in AccountsWires }

(***************************************************************************)
(* Strings are sequences of one-character strings, so that case folding    *)
(* and substring search are computed character by character.               *)
(***************************************************************************)
UpperCase == <<"A", "B", "C", "D", "E", "F", "G", "H", "I", "J", "K", "L", "M", "N", "O", "P", "Q", "R", "S", "T", "U", "V", "W", "X", "Y", "Z">>
LowerCase == <<"a", "b", "c", "d", "e", "f", "g", "h", "i", "j", "k", "l", "m", "n", "o", "p", "q", "r", "s", "t", "u", "v", "w", "x", "y", "z">>

\* char::to_lowercase on the characters of the model
char_to_lowercase(c) ==
    IF \E k \in 1..Len(UpperCase) : UpperCase[k] = c
    THEN LowerCase[CHOOSE k \in 1..Len(UpperCase) : UpperCase[k] = c]
    ELSE c

\* str::to_lowercase
to_lowercase(s) == [i \in 1..Len(s) |-> char_to_lowercase(s[i])]

\* str::contains(pat)
contains(s, pat) ==
    \E i \in 0..(Len(s) - Len(pat)) : SubSeq(s, i + 1, i + Len(pat)) = pat

PublicToken == <<"p", "u", "b", "l", "i", "c">>
AdminToken == <<"a", "d", "m", "i", "n">>

(***************************************************************************)
(* VNetRpcs, vnets/types.rs:199-242.                                       *)
(***************************************************************************)
\* self.endpoints.iter().find(|e| e.name.to_lowercase().contains(token))
RECURSIVE VNetRpcs_find(_, _)
VNetRpcs_find(endpoints, token) ==
    IF endpoints = <<>> THEN None
    ELSE IF contains(to_lowercase(Head(endpoints).name), token)
         THEN Some(Head(endpoints))
         ELSE VNetRpcs_find(Tail(endpoints), token)

\* Mutant: the name is searched as it is written, without lower-casing it.
RECURSIVE VNetRpcs_find_cased(_, _)
VNetRpcs_find_cased(endpoints, token) ==
    IF endpoints = <<>> THEN None
    ELSE IF contains(Head(endpoints).name, token)
         THEN Some(Head(endpoints))
         ELSE VNetRpcs_find_cased(Tail(endpoints), token)

\* .map(|e| e.url.as_str())
map_url(found) == IF found = None THEN None ELSE Some(found.value.url)

VNetRpcs_public_cased(self) ==
    map_url(VNetRpcs_find_cased(self.endpoints, PublicToken))

VNetRpcs_public(self) ==
    map_url(VNetRpcs_find(self.endpoints, PublicToken))

VNetRpcs_admin(self) ==
    map_url(VNetRpcs_find(self.endpoints, AdminToken))

de_RpcEndpoint(v) ==
    IF v.j # "obj" THEN Err("invalid type")
    ELSE IF JGet(v, "name") = JAbsent THEN Err("missing field name")
    ELSE IF JGet(v, "url") = JAbsent THEN Err("missing field url")
    ELSE LET n == de_String(JGet(v, "name"))
             u == de_String(JGet(v, "url"))
         IN IF n.tag = "Err" THEN n
            ELSE IF u.tag = "Err" THEN u
            ELSE Ok([name |-> n.value, url |-> u.value])

de_VecRpcEndpoint(v) ==
    IF v.j # "arr" THEN Err("invalid type")
    ELSE LET rs == [i \in 1..Len(v.items) |-> de_RpcEndpoint(v.items[i])]
         IN IF \E i \in 1..Len(rs) : rs[i].tag = "Err"
            THEN rs[CHOOSE i \in 1..Len(rs) :
                       /\ rs[i].tag = "Err"
                       /\ \A k \in 1..(i - 1) : rs[k].tag = "Ok"]
            ELSE Ok([i \in 1..Len(rs) |-> rs[i].value])

\* deserialize_rpcs, vnets/types.rs:199-205, under #[serde(default)]
deserialize_rpcs(v) ==
    LET endpoints == de_Option(v, de_VecRpcEndpoint(v))
    IN IF endpoints.tag = "Err" THEN endpoints
       ELSE Ok(IF endpoints.value = None THEN None
               ELSE Some([endpoints |-> endpoints.value.value]))

(***************************************************************************)
(* The endpoint lists the service may answer with.                         *)
(***************************************************************************)
AdminRPC == <<"A", "d", "m", "i", "n", " ", "R", "P", "C">>
PublicRPC == <<"P", "u", "b", "l", "i", "c", " ", "R", "P", "C">>
EndpointNames ==
    { AdminRPC, PublicRPC,
      <<"P", "U", "B", "L", "I", "C">>,
      <<"p", "u", "b", "l", "i">>,
      <<"m", "y", "-", "A", "d", "M", "i", "N", "-", "p", "u", "b", "l", "i", "c">>,
      <<"r", "e", "p", "u", "b", "l", "i", "c", "a", "n", " ", "a", "d", "m", "i">>,
      <<"r", "p", "c">> }
EndpointUrls == {<<"u", "1">>, <<"u", "2">>}

EndpointWires ==
    {JObj([name |-> JStr(n), url |-> JStr(u)]) : n \in EndpointNames, u \in EndpointUrls}
RpcsWires ==
    {JAbsent, JNull}
        \cup UNION {{JArr(l) : l \in [1..n -> EndpointWires]} : n \in 0..MaxEndpoints}

(***************************************************************************)
(* DeleteVNetsRequest, vnets/types.rs:299-318.                             *)
(***************************************************************************)
VNetIds == {"abc", "def", "ghi"}

\* Mutant: the id is never put into the list.
DeleteVNetsRequest_single_empty(id) == [ids |-> <<>>]

DeleteVNetsRequest_single(id) == [ids |-> <<id>>]

DeleteVNetsRequest_multiple(ids) == [ids |-> ids]

\* #[derive(Serialize)] of DeleteVNetsRequest: {"ids": [..]}
ser_DeleteVNetsRequest(self) ==
    JObj([ids |-> JArr([i \in 1..Len(self.ids) |-> JStr(self.ids[i])])])

(***************************************************************************)
(* SimulationRequest and its builder (simulation/types.rs, which is not    *)
(* among the sources): modelled from the specification, sections 3 and     *)
(* 4.1, and from the tests at simulation/api.rs:117-147.                   *)
(***************************************************************************)
HexDigits == <<"0", "1", "2", "3", "4", "5", "6", "7", "8", "9", "a", "b", "c", "d", "e", "f">>
HexPrefix == <<"0", "x">>

\* Mutant: upper-case hex digits ({:X} in place of {:x}).
HexDigitsUpper == <<"0", "1", "2", "3", "4", "5", "6", "7", "8", "9", "A", "B", "C", "D", "E", "F">>
RECURSIVE fmt_upper_hex(_)
fmt_upper_hex(w) ==
    IF w < 16 THEN <<HexDigitsUpper[w + 1]>>
    ELSE Append(fmt_upper_hex(w \div 16), HexDigitsUpper[(w % 16) + 1])

\* format!("{:x}", w): lower-case hex, no leading zeros, "0" for zero
RECURSIVE fmt_lower_hex(_)
fmt_lower_hex(w) ==
    IF w < 16 THEN <<HexDigits[w + 1]>>
    ELSE Append(fmt_lower_hex(w \div 16), HexDigits[(w % 16) + 1])

SimulationRequest_new(from, to, input) ==
    [ from |-> from, to |-> to, input |-> input,
      value |-> None, gas |-> None, block_number |-> None, save |-> FALSE,
      state_objects |-> None ]

SimulationRequest_value_wei_upper(self, wei) ==
    [self EXCEPT !.value = Some(HexPrefix \o fmt_upper_hex(wei))]

SimulationRequest_value_wei(self, wei) ==
    [self EXCEPT !.value = Some(HexPrefix \o fmt_lower_hex(wei))]

\* HashMap::new() and HashMap::insert
EmptyMap == [x \in {} |-> None]
MapInsert(m, k, v) == [x \in DOMAIN m \cup {k} |-> IF x = k THEN v ELSE m[x]]

\* StateOverride::default()
StateOverride_default ==
    [balance |-> None, nonce |-> None, code |-> None, storage |-> None]

\* self.state_objects.get_or_insert_with(HashMap::new)
state_objects_or_new(self) ==
    IF self.state_objects = None THEN EmptyMap ELSE self.state_objects.value

\* .entry(address).or_default()
entry_or_default(objs, address) ==
    IF address \in DOMAIN objs THEN objs[address] ELSE StateOverride_default

SimulationRequest_override_balance(self, address, balance) ==
    LET objs == state_objects_or_new(self)
        entry == entry_or_default(objs, address)
    IN [self EXCEPT !.state_objects =
            Some(MapInsert(objs, address, [entry EXCEPT !.balance = Some(balance)]))]

\* Mutant: the entry of the address is replaced by one holding the new slot only.
SimulationRequest_override_storage_replacing(self, address, slot, value) ==
    LET objs == state_objects_or_new(self)
    IN [self EXCEPT !.state_objects =
            Some(MapInsert(objs, address,
                [StateOverride_default EXCEPT
                    !.storage = Some(MapInsert(EmptyMap, slot, value))]))]

SimulationRequest_override_storage(self, address, slot, value) ==
    LET objs == state_objects_or_new(self)
        entry == entry_or_default(objs, address)
        storage == IF entry.storage = None THEN EmptyMap ELSE entry.storage.value
    IN [self EXCEPT !.state_objects =
            Some(MapInsert(objs, address,
                [entry EXCEPT !.storage = Some(MapInsert(storage, slot, value))]))]

SimulationRequest_override_code(self, address, code) ==
    LET objs == state_objects_or_new(self)
        entry == entry_or_default(objs, address)
    IN [self EXCEPT !.state_objects =
            Some(MapInsert(objs, address, [entry EXCEPT !.code = Some(code)]))]

\* Addresses are map keys as given: the two spellings below are different keys.
Addresses == {"0xaaaa", "0xAAAA"}
Balances == {"1000000000000000000", "5"}
Codes == {"0x6080", "0x00"}
Slots == {"0x0", "0x1"}
SlotValues == {"0x1", "0x2"}

(***************************************************************************)
(* The simulation API, simulation/api.rs:30-103.  The Client (its get,     *)
(* post, post_no_response, get_with_query and encode_path_segment) is not  *)
(* among the sources: it is the Transport collaborator of the              *)
(* specification, sections 4.5 and 6.                                      *)
(***************************************************************************)
\* Characters an identifier is made of, and their path-segment encoding.
IdChars == {"a", ".", "/", "?", " ", "%", "e'"}     \* e' stands for U+00E9

encode_char(c) ==
    CASE c = "/" -> <<"%", "2", "F">>
      [] c = "?" -> <<"%", "3", "F">>
      [] c = " " -> <<"%", "2", "0">>
      [] c = "%" -> <<"%", "2", "5">>
      [] c = "e'" -> <<"%", "C", "3", "%", "A", "9">>
      [] OTHER -> <<c>>

\* encode_path_segment(id): each character outside the unreserved set is escaped
RECURSIVE encode_path_segment(_)
encode_path_segment(id) ==
    IF id = <<>> THEN <<>>
    ELSE encode_char(Head(id)) \o encode_path_segment(Tail(id))

json_empty == JObj([x \in {} |-> JNull])

\* One call of the Client.
TransportCall(fn, method, path, payload) ==
    [fn |-> fn, method |-> method, path |-> path, payload |-> payload]

\* Client::post_no_response gives Ok(()) whatever the body the service sent.
Unit == <<>>
Transport_post_no_response(reply) ==
    IF reply.tag = "Ok" THEN Ok(Unit) ELSE reply

\* simulate, api.rs:30-32
SimulationApi_simulate_request(request) ==
    TransportCall("post", "POST", <<"/", "s", "i", "m", "u", "l", "a", "t", "e">>, request)

\* Mutant: one POST to /simulate for each transaction of the bundle.
SimulationApi_simulate_bundle_split(request) ==
    [i \in 1..Len(request.simulations) |->
        TransportCall("post", "POST", <<"/", "s", "i", "m", "u", "l", "a", "t", "e">>, request.simulations[i])]

\* Mutant: an empty bundle is rejected locally and never sent.
SimulationApi_simulate_bundle_validating(request) ==
    IF request.simulations = <<>> THEN <<>>
    ELSE <<TransportCall("post", "POST",
                         <<"/", "s", "i", "m", "u", "l", "a", "t", "e", "-",
                           "b", "u", "n", "d", "l", "e">>, request)>>

\* simulate_bundle, api.rs:37-42: the calls it makes
SimulationApi_simulate_bundle_calls(request) ==
    <<TransportCall("post", "POST", <<"/", "s", "i", "m", "u", "l", "a", "t", "e", "-", "b", "u", "n", "d", "l", "e">>, request)>>

\* list, api.rs:50-53
SimulationApi_list_request(page, per_page) ==
    TransportCall("get_with_query", "GET", <<"/", "s", "i", "m", "u", "l", "a", "t", "i", "o", "n", "s">>, [page |-> page, perPage |-> per_page])

\* Mutant: the id is interpolated as it is.
SimulationApi_get_route_raw(id) == <<"/", "s", "i", "m", "u", "l", "a", "t", "i", "o", "n", "s", "/">> \o id

\* get, api.rs:56-60
SimulationApi_get_route(id) == <<"/", "s", "i", "m", "u", "l", "a", "t", "i", "o", "n", "s", "/">> \o encode_path_segment(id)

\* info, api.rs:63-67
SimulationApi_info_route(id) ==
    <<"/", "s", "i", "m", "u", "l", "a", "t", "i", "o", "n", "s", "/">> \o encode_path_segment(id) \o <<"/", "i", "n", "f", "o">>

\* share, api.rs:76
SimulationApi_share_route(id) ==
    <<"/", "s", "i", "m", "u", "l", "a", "t", "i", "o", "n", "s", "/">> \o encode_path_segment(id) \o <<"/", "s", "h", "a", "r", "e">>

\* unshare, api.rs:92
SimulationApi_unshare_route(id) ==
    <<"/", "s", "i", "m", "u", "l", "a", "t", "i", "o", "n", "s", "/">> \o encode_path_segment(id) \o <<"/", "u", "n", "s", "h", "a", "r", "e">>

\* trace, api.rs:99-103
SimulationApi_trace_route(hash) == <<"/", "t", "r", "a", "c", "e", "/">> \o encode_path_segment(hash)

SharedUrlPrefix ==
    <<"h", "t", "t", "p", "s", ":", "/", "/", "d", "a", "s", "h", "b", "o", "a", "r", "d", ".", "t", "e", "n", "d", "e", "r", "l", "y", ".", "c", "o">>
    \o <<"/", "s", "h", "a", "r", "e", "d", "/", "s", "i", "m", "u", "l", "a", "t", "i", "o", "n", "/">>

\* Mutant: the public url is built from the id as it is.
SimulationApi_share_finish_raw(id, reply) ==
    LET r == Transport_post_no_response(reply)
    IN IF r.tag = "Err" THEN r ELSE Ok(SharedUrlPrefix \o id)

\* share, api.rs:79-84: the `?` on the transport's answer, then the url
SimulationApi_share_finish(id, reply) ==
    LET r == Transport_post_no_response(reply)
    IN IF r.tag = "Err" THEN r ELSE Ok(SharedUrlPrefix \o encode_path_segment(id))

\* The calls an operation makes before it suspends on the transport.
SimulationApi_calls(op, arg) ==
    CASE op = "simulate" -> <<SimulationApi_simulate_request(arg)>>
      [] op = "simulate_bundle" -> SimulationApi_simulate_bundle_calls(arg)
      [] op = "list" -> <<SimulationApi_list_request(arg[1], arg[2])>>
      [] op = "get" -> <<TransportCall("get", "GET", SimulationApi_get_route(arg), Unit)>>
      [] op = "info" -> <<TransportCall("get", "GET", SimulationApi_info_route(arg), Unit)>>
      [] op = "share" ->
            <<TransportCall("post_no_response", "POST",
                            SimulationApi_share_route(arg), json_empty)>>
      [] op = "unshare" ->
            <<TransportCall("post_no_response", "POST",
                            SimulationApi_unshare_route(arg), json_empty)>>
      [] op = "trace" -> <<TransportCall("get", "GET", SimulationApi_trace_route(arg), Unit)>>

\* What an operation returns once the transport has answered.
SimulationApi_finish(op, arg, reply) ==
    CASE op = "share" -> SimulationApi_share_finish(arg, reply)
      [] op = "unshare" -> Transport_post_no_response(reply)
      [] OTHER -> reply

\* Inputs.
RECURSIVE SeqsUpTo(_, _)
SeqsUpTo(S, n) ==
    IF n = 0 THEN {<<>>}
    ELSE LET shorter == SeqsUpTo(S, n - 1)
         IN shorter \cup {Append(q, x) : q \in shorter, x \in S}

SimulationIds == SeqsUpTo(IdChars, MaxIdLen)
Transactions == {"tx1", "tx2-reverts", "tx3"}
Bundles ==
    {[simulations |-> txs, network_id |-> "1"] : txs \in SeqsUpTo(Transactions, MaxBundle)}
SimulationRequests ==
    {SimulationRequest_new("0x1234", "0x5678", "0xabcd"),
     SimulationRequest_new("not-an-address", "", "zz")}
PerPages == {10, 100, 101}
ServiceReplies ==
    {Ok("body-1"), Ok("body-2"), Err("transport"), Err("rejected"), Err("decoding")}

(***************************************************************************)
(* VNetSimulationRequest and its builder, vnets/types.rs:459-564.          *)
(***************************************************************************)
VNetSimulationRequest_new(from, to, input) ==
    [ from |-> from, to |-> to, input |-> input,
      value |-> None, gas |-> None, gas_price |-> None,
      max_fee_per_gas |-> None, max_priority_fee_per_gas |-> None,
      transaction_type |-> None, nonce |-> None ]

VNetSimulationRequest_value(self, wei) == [self EXCEPT !.value = Some(wei)]

VNetSimulationRequest_gas(self, gas) == [self EXCEPT !.gas = Some(gas)]

\* Mutant: the fee is stored and the transaction type is left as it was.
VNetSimulationRequest_max_fee_per_gas_only(self, fee) ==
    [self EXCEPT !.max_fee_per_gas = Some(fee)]

VNetSimulationRequest_max_fee_per_gas(self, fee) ==
    [self EXCEPT !.max_fee_per_gas = Some(fee), !.transaction_type = Some(2)]

\* Mutant: the priority fee is stored and the transaction type is left as it was.
VNetSimulationRequest_max_priority_fee_per_gas_only(self, fee) ==
    [self EXCEPT !.max_priority_fee_per_gas = Some(fee)]

VNetSimulationRequest_max_priority_fee_per_gas(self, fee) ==
    [self EXCEPT !.max_priority_fee_per_gas = Some(fee), !.transaction_type = Some(2)]

VNetSimulationRequest_transaction_type(self, tx_type) ==
    [self EXCEPT !.transaction_type = Some(tx_type)]

VNetSimulationRequest_nonce(self, nonce) == [self EXCEPT !.nonce = Some(nonce)]

TxTypes == 0..MaxTxType
Gases == 0..MaxGas
Nonces == 0..MaxNonce
WeiStrings == {"1000"}
FeeStrings == {"30000000000", "not-a-number"}

Init ==
    /\ vreq = None
    /\ vhist = None
    /\ sent = None
    /\ wire = None
    /\ vnet = None
    /\ got_chain_id = None
    /\ rpcs_wire = None
    /\ rpcs = None
    /\ got_public = None
    /\ got_admin = None
    /\ del_req = None
    /\ del_call = None
    /\ sim_req = None
    /\ wei_arg = None
    /\ ov_touched = {}
    /\ ov_balance = {}
    /\ ov_code = {}
    /\ ov_storage = {}
    /\ api_pc = "idle"
    /\ api_call = None
    /\ transport_log = <<>>
    /\ service_reply = None
    /\ api_result = None
    /\ vsim = None
    /\ vsim_hist = None

\* let r = CreateVNetRequest::new(slug, display_name, network_id)
New ==
    \E slug \in Slugs, display_name \in DisplayNames, network_id \in ChainIds :
        /\ vreq' = Some(CreateVNetRequest_new(slug, display_name, network_id))
        /\ vhist' = Some([network_id |-> network_id, chain_id_arg |-> None,
                          last |-> <<"new", network_id, slug, display_name>>])
        /\ UNCHANGED <<respVars, rpcVars, delVars, simVars, apiVars, vsimVars>>

\* r = r.block_number(block)
BlockNumber ==
    /\ vreq # None
    /\ \E block \in Blocks :
        /\ vreq' = Some(CreateVNetRequest_block_number(vreq.value, block))
        /\ vhist' = Some([vhist.value EXCEPT !.last = <<"block_number", block>>])
    /\ UNCHANGED <<respVars, rpcVars, delVars, simVars, apiVars, vsimVars>>

\* r = r.chain_id(chain_id)
ChainId ==
    /\ vreq # None
    /\ \E chain_id \in ChainIds :
        /\ vreq' = Some(CreateVNetRequest_chain_id(vreq.value, chain_id))
        /\ vhist' = Some([vhist.value EXCEPT !.chain_id_arg = Some(chain_id),
                                             !.last = <<"chain_id", chain_id>>])
    /\ UNCHANGED <<respVars, rpcVars, delVars, simVars, apiVars, vsimVars>>

\* r = r.base_fee_per_gas(fee)
BaseFeePerGas ==
    /\ vreq # None
    /\ \E fee \in Fees :
        /\ vreq' = Some(CreateVNetRequest_base_fee_per_gas(vreq.value, fee))
        /\ vhist' = Some([vhist.value EXCEPT !.last = <<"base_fee_per_gas", fee>>])
    /\ UNCHANGED <<respVars, rpcVars, delVars, simVars, apiVars, vsimVars>>

\* r = r.sync_state(enabled)
SyncState ==
    /\ vreq # None
    /\ \E enabled \in BOOLEAN :
        /\ vreq' = Some(CreateVNetRequest_sync_state(vreq.value, enabled))
        /\ vhist' = Some([vhist.value EXCEPT !.last = <<"sync_state", enabled>>])
    /\ UNCHANGED <<respVars, rpcVars, delVars, simVars, apiVars, vsimVars>>

\* r = r.explorer_page(enabled, verification_visibility)
ExplorerPage ==
    /\ vreq # None
    /\ \E enabled \in BOOLEAN, vis \in Visibilities :
        /\ vreq' = Some(CreateVNetRequest_explorer_page(vreq.value, enabled, vis))
        /\ vhist' = Some([vhist.value EXCEPT !.last = <<"explorer_page", enabled, vis>>])
    /\ UNCHANGED <<respVars, rpcVars, delVars, simVars, apiVars, vsimVars>>

NextVNet ==
    \/ New
    \/ BlockNumber
    \/ ChainId
    \/ BaseFeePerGas
    \/ SyncState
    \/ ExplorerPage

SpecVNet == Init /\ [][NextVNet]_vars

(***************************************************************************)
(* The response side: a request is sent, the service answers, the answer   *)
(* is decoded, and the caller reads the chain id off the decoded VNet.     *)
(***************************************************************************)
\* A request new(..)[.chain_id(..)] is sent; the answer is deserialized.  A request
\* is consumed by one operation, so one exchange is followed per behaviour.
Respond ==
    /\ sent = None
    /\ \E slug \in Slugs, display_name \in DisplayNames, network_id \in ChainIds,
       override \in {None} \cup {Some(c) : c \in ChainIds}, w \in VNetWires :
        /\ sent' = Some(IF override = None
                        THEN CreateVNetRequest_new(slug, display_name, network_id)
                        ELSE CreateVNetRequest_chain_id(
                                 CreateVNetRequest_new(slug, display_name, network_id),
                                 override.value))
        /\ wire' = Some(w)
        /\ vnet' = Some(de_VNet(w))
        /\ got_chain_id' = None
        /\ UNCHANGED <<vnetVars, rpcVars, delVars, simVars, apiVars, vsimVars>>

\* vnet.virtual_network_config.chain_id()
CallChainId ==
    /\ vnet # None
    /\ vnet.value.tag = "Ok"
    /\ got_chain_id' =
          Some(VirtualNetworkConfigResponse_chain_id(
                   vnet.value.value.virtual_network_config))
    /\ UNCHANGED <<sent, wire, vnet, vnetVars, rpcVars, delVars, simVars, apiVars, vsimVars>>

NextResponse ==
    \/ Respond
    \/ CallChainId

SpecResponse == Init /\ [][NextResponse]_vars

(***************************************************************************)
(* Endpoint resolution: the "rpcs" member of a VNet answer is decoded and  *)
(* the caller asks the decoded list for its public and admin urls.         *)
(***************************************************************************)
ReceiveRpcs ==
    /\ rpcs_wire = None
    /\ \E w \in RpcsWires :
        /\ rpcs_wire' = Some(w)
        /\ rpcs' = Some(deserialize_rpcs(w))
    /\ UNCHANGED <<got_public, got_admin, vnetVars, respVars, delVars, simVars, apiVars, vsimVars>>

RpcsDecoded == rpcs # None /\ rpcs.value.tag = "Ok" /\ rpcs.value.value # None

\* rpcs.public()
CallPublic ==
    /\ RpcsDecoded
    /\ got_public' = Some(VNetRpcs_public(rpcs.value.value.value))
    /\ UNCHANGED <<rpcs_wire, rpcs, got_admin, vnetVars, respVars, delVars, simVars, apiVars, vsimVars>>

\* rpcs.admin()
CallAdmin ==
    /\ RpcsDecoded
    /\ got_admin' = Some(VNetRpcs_admin(rpcs.value.value.value))
    /\ UNCHANGED <<rpcs_wire, rpcs, got_public, vnetVars, respVars, delVars, simVars, apiVars, vsimVars>>

NextRpcs ==
    \/ ReceiveRpcs
    \/ CallPublic
    \/ CallAdmin

SpecRpcs == Init /\ [][NextRpcs]_vars

(***************************************************************************)
(* Delete requests are made from one id or from a list of ids.             *)
(***************************************************************************)
\* DeleteVNetsRequest::single(id)
DeleteSingle ==
    \E id \in VNetIds :
        /\ del_req' = Some(DeleteVNetsRequest_single(id))
        /\ del_call' = Some([ctor |-> "single", arg |-> id])
        /\ UNCHANGED <<vnetVars, respVars, rpcVars, simVars, apiVars, vsimVars>>

\* DeleteVNetsRequest::multiple(ids)
DeleteMultiple ==
    \E n \in 0..MaxDeleteIds : \E ids \in [1..n -> VNetIds] :
        /\ del_req' = Some(DeleteVNetsRequest_multiple(ids))
        /\ del_call' = Some([ctor |-> "multiple", arg |-> ids])
        /\ UNCHANGED <<vnetVars, respVars, rpcVars, simVars, apiVars, vsimVars>>

NextDelete ==
    \/ DeleteSingle
    \/ DeleteMultiple

SpecDelete == Init /\ [][NextDelete]_vars

(***************************************************************************)
(* Building a simulation request.                                          *)
(***************************************************************************)
\* SimulationRequest::new("0x1234", "0x5678", "0xabcd")
SimNew ==
    /\ sim_req = None
    /\ sim_req' = Some(SimulationRequest_new("0x1234", "0x5678", "0xabcd"))
    /\ UNCHANGED <<wei_arg, ov_touched, ov_balance, ov_code, ov_storage>>
    /\ UNCHANGED <<vnetVars, respVars, rpcVars, delVars, apiVars, vsimVars>>

\* r = r.value_wei(wei)
ValueWei ==
    /\ sim_req # None
    /\ \E wei \in 0..MaxWei :
        /\ sim_req' = Some(SimulationRequest_value_wei(sim_req.value, wei))
        /\ wei_arg' = Some(wei)
    /\ UNCHANGED <<ov_touched, ov_balance, ov_code, ov_storage>>
    /\ UNCHANGED <<vnetVars, respVars, rpcVars, delVars, apiVars, vsimVars>>

\* r = r.override_balance(address, balance)
OverrideBalance ==
    /\ sim_req # None
    /\ \E address \in Addresses, balance \in Balances :
        /\ sim_req' = Some(SimulationRequest_override_balance(
                               sim_req.value, address, balance))
        /\ ov_touched' = ov_touched \cup {address}
        /\ ov_balance' = {b \in ov_balance : b[1] # address} \cup {<<address, balance>>}
    /\ UNCHANGED <<wei_arg, ov_code, ov_storage>>
    /\ UNCHANGED <<vnetVars, respVars, rpcVars, delVars, apiVars, vsimVars>>

\* r = r.override_storage(address, slot, value)
OverrideStorage ==
    /\ sim_req # None
    /\ \E address \in Addresses, slot \in Slots, value \in SlotValues :
        /\ sim_req' = Some(SimulationRequest_override_storage(
                               sim_req.value, address, slot, value))
        /\ ov_touched' = ov_touched \cup {address}
        /\ ov_storage' = {x \in ov_storage : <<x[1], x[2]>> # <<address, slot>>}
                             \cup {<<address, slot, value>>}
    /\ UNCHANGED <<wei_arg, ov_balance, ov_code>>
    /\ UNCHANGED <<vnetVars, respVars, rpcVars, delVars, apiVars, vsimVars>>

\* r = r.override_code(address, code)
OverrideCode ==
    /\ sim_req # None
    /\ \E address \in Addresses, code \in Codes :
        /\ sim_req' = Some(SimulationRequest_override_code(sim_req.value, address, code))
        /\ ov_touched' = ov_touched \cup {address}
        /\ ov_code' = {c \in ov_code : c[1] # address} \cup {<<address, code>>}
    /\ UNCHANGED <<wei_arg, ov_balance, ov_storage>>
    /\ UNCHANGED <<vnetVars, respVars, rpcVars, delVars, apiVars, vsimVars>>

NextValueWei ==
    \/ SimNew
    \/ ValueWei

SpecValueWei == Init /\ [][NextValueWei]_vars

NextOverrides ==
    \/ SimNew
    \/ OverrideBalance
    \/ OverrideStorage
    \/ OverrideCode

SpecOverrides == Init /\ [][NextOverrides]_vars

(***************************************************************************)
(* One operation of the simulation API: it is invoked, makes its calls to  *)
(* the transport and suspends; the transport answers and it returns.       *)
(***************************************************************************)
Invoke(op, arg) ==
    /\ api_pc' = "awaiting"
    /\ api_call' = Some([op |-> op, arg |-> arg])
    /\ transport_log' = transport_log \o SimulationApi_calls(op, arg)
    /\ UNCHANGED <<service_reply, api_result>>
    /\ UNCHANGED <<vnetVars, respVars, rpcVars, delVars, simVars, vsimVars>>

Simulate ==
    /\ api_pc = "idle"
    /\ \E request \in SimulationRequests :
        Invoke("simulate", request)

SimulateBundle ==
    /\ api_pc = "idle"
    /\ \E request \in Bundles :
        Invoke("simulate_bundle", request)

List ==
    /\ api_pc = "idle"
    /\ \E page \in 0..MaxPage, per_page \in PerPages :
        Invoke("list", <<page, per_page>>)

Get ==
    /\ api_pc = "idle"
    /\ \E id \in SimulationIds :
        Invoke("get", id)

Info ==
    /\ api_pc = "idle"
    /\ \E id \in SimulationIds :
        Invoke("info", id)

Share ==
    /\ api_pc = "idle"
    /\ \E id \in SimulationIds :
        Invoke("share", id)

Unshare ==
    /\ api_pc = "idle"
    /\ \E id \in SimulationIds :
        Invoke("unshare", id)

Trace ==
    /\ api_pc = "idle"
    /\ \E hash \in SimulationIds :
        Invoke("trace", hash)

\* The awaited call completes and the operation returns.
TransportAnswers ==
    /\ api_pc = "awaiting"
    /\ \E reply \in ServiceReplies :
        /\ service_reply' = Some(reply)
        /\ api_result' = Some(SimulationApi_finish(
                                  api_call.value.op, api_call.value.arg, reply))
    /\ api_pc' = "done"
    /\ UNCHANGED <<api_call, transport_log>>
    /\ UNCHANGED <<vnetVars, respVars, rpcVars, delVars, simVars, vsimVars>>

NextApi ==
    \/ Simulate
    \/ SimulateBundle
    \/ List
    \/ Get
    \/ Info
    \/ Share
    \/ Unshare
    \/ Trace
    \/ TransportAnswers

SpecApi == Init /\ [][NextApi]_vars

(***************************************************************************)
(* Building a VNet simulation request.  vsim_hist keeps the last call, the *)
(* argument of the last transaction_type call, and the argument of a       *)
(* transaction_type call made after the last fee setter.                   *)
(***************************************************************************)
\* VNetSimulationRequest::new(from, to, input): one request per behaviour
VSimNew ==
    /\ vsim = None
    /\ vsim' = Some(VNetSimulationRequest_new("0x1234", "0x5678", "0xabcd"))
    /\ vsim_hist' = Some([last |-> <<"new">>, type_arg |-> None, type_after_fee |-> None])
    /\ UNCHANGED <<vnetVars, respVars, rpcVars, delVars, simVars, apiVars>>

\* r = r.value(wei)
VSimValue ==
    /\ vsim # None
    /\ \E wei \in WeiStrings :
        /\ vsim' = Some(VNetSimulationRequest_value(vsim.value, wei))
        /\ vsim_hist' = Some([vsim_hist.value EXCEPT !.last = <<"value", wei>>])
    /\ UNCHANGED <<vnetVars, respVars, rpcVars, delVars, simVars, apiVars>>

\* r = r.gas(gas)
VSimGas ==
    /\ vsim # None
    /\ \E gas \in Gases :
        /\ vsim' = Some(VNetSimulationRequest_gas(vsim.value, gas))
        /\ vsim_hist' = Some([vsim_hist.value EXCEPT !.last = <<"gas", gas>>])
    /\ UNCHANGED <<vnetVars, respVars, rpcVars, delVars, simVars, apiVars>>

\* r = r.max_fee_per_gas(fee)
VSimMaxFeePerGas ==
    /\ vsim # None
    /\ \E fee \in FeeStrings :
        /\ vsim' = Some(VNetSimulationRequest_max_fee_per_gas(vsim.value, fee))
        /\ vsim_hist' = Some([vsim_hist.value EXCEPT
                                  !.last = <<"max_fee_per_gas", fee>>,
                                  !.type_after_fee = None])
    /\ UNCHANGED <<vnetVars, respVars, rpcVars, delVars, simVars, apiVars>>

\* r = r.max_priority_fee_per_gas(fee)
VSimMaxPriorityFeePerGas ==
    /\ vsim # None
    /\ \E fee \in FeeStrings :
        /\ vsim' = Some(VNetSimulationRequest_max_priority_fee_per_gas(vsim.value, fee))
        /\ vsim_hist' = Some([vsim_hist.value EXCEPT
                                  !.last = <<"max_priority_fee_per_gas", fee>>,
                                  !.type_after_fee = None])
    /\ UNCHANGED <<vnetVars, respVars, rpcVars, delVars, simVars, apiVars>>

\* r = r.transaction_type(tx_type)
VSimTransactionType ==
    /\ vsim # None
    /\ \E tx_type \in TxTypes :
        /\ vsim' = Some(VNetSimulationRequest_transaction_type(vsim.value, tx_type))
        /\ vsim_hist' = Some([vsim_hist.value EXCEPT
                                  !.last = <<"transaction_type", tx_type>>,
                                  !.type_arg = Some(tx_type),
                                  !.type_after_fee = Some(tx_type)])
    /\ UNCHANGED <<vnetVars, respVars, rpcVars, delVars, simVars, apiVars>>

\* r = r.nonce(nonce)
VSimNonce ==
    /\ vsim # None
    /\ \E nonce \in Nonces :
        /\ vsim' = Some(VNetSimulationRequest_nonce(vsim.value, nonce))
        /\ vsim_hist' = Some([vsim_hist.value EXCEPT !.last = <<"nonce", nonce>>])
    /\ UNCHANGED <<vnetVars, respVars, rpcVars, delVars, simVars, apiVars>>

NextVNetSim ==
    \/ VSimNew
    \/ VSimValue
    \/ VSimGas
    \/ VSimMaxFeePerGas
    \/ VSimMaxPriorityFeePerGas
    \/ VSimTransactionType
    \/ VSimNonce

SpecVNetSim == Init /\ [][NextVNetSim]_vars

(***************************************************************************)
(* C1: new(slug, display_name, network_id) yields a request whose          *)
(* fork_config.network_id and virtual_network_config.chain_id both equal   *)
(* network_id, with block_number, base_fee_per_gas, sync_state_config and  *)
(* explorer_page_config unset; and as long as no chain_id(..) call was     *)
(* made, virtual_network_config.chain_id equals fork_config.network_id.    *)
(***************************************************************************)
C1_ChainIdDefaultsToNetworkId ==
    vreq # None =>
        /\ vhist.value.last[1] = "new" =>
              /\ vreq.value.slug = vhist.value.last[3]
              /\ vreq.value.display_name = vhist.value.last[4]
              /\ vreq.value.fork_config.network_id = vhist.value.last[2]
              /\ vreq.value.virtual_network_config.chain_id = vhist.value.last[2]
              /\ vreq.value.fork_config.block_number = None
              /\ vreq.value.virtual_network_config.base_fee_per_gas = None
              /\ vreq.value.sync_state_config = None
              /\ vreq.value.explorer_page_config = None
        /\ vhist.value.chain_id_arg = None =>
              vreq.value.virtual_network_config.chain_id
                  = vreq.value.fork_config.network_id

\* Every other builder was called on new(_, _, 2) and chain_id(..) was not.
C1_Witness ==
    /\ vreq # None
    /\ vhist.value.chain_id_arg = None
    /\ vhist.value.network_id = 2
    /\ vhist.value.last[1] = "explorer_page"
    /\ vreq.value.fork_config.block_number # None
    /\ vreq.value.virtual_network_config.base_fee_per_gas # None
    /\ vreq.value.sync_state_config # None

(***************************************************************************)
(* C2: fork_config and virtual_network_config are independently settable.  *)
(* A chain_id(c) step changes only virtual_network_config.chain_id and a   *)
(* block_number(b) step changes only fork_config.block_number; hence in    *)
(* every reachable request fork_config.network_id is the argument of new   *)
(* and virtual_network_config.chain_id is the argument of the last         *)
(* chain_id call, or the argument of new when there was none.              *)
(***************************************************************************)
C2_ChainIdStep ==
    (vreq # None /\ vhist'.value.last[1] = "chain_id") =>
        /\ vreq'.value.virtual_network_config.chain_id = vhist'.value.last[2]
        /\ vreq'.value.virtual_network_config.base_fee_per_gas
               = vreq.value.virtual_network_config.base_fee_per_gas
        /\ vreq'.value.fork_config = vreq.value.fork_config
        /\ vreq'.value.slug = vreq.value.slug
        /\ vreq'.value.display_name = vreq.value.display_name
        /\ vreq'.value.sync_state_config = vreq.value.sync_state_config
        /\ vreq'.value.explorer_page_config = vreq.value.explorer_page_config

C2_BlockNumberStep ==
    (vreq # None /\ vhist'.value.last[1] = "block_number") =>
        /\ vreq'.value.fork_config.block_number = Some(vhist'.value.last[2])
        /\ vreq'.value.fork_config.network_id = vreq.value.fork_config.network_id
        /\ vreq'.value.virtual_network_config = vreq.value.virtual_network_config
        /\ vreq'.value.slug = vreq.value.slug
        /\ vreq'.value.display_name = vreq.value.display_name
        /\ vreq'.value.sync_state_config = vreq.value.sync_state_config
        /\ vreq'.value.explorer_page_config = vreq.value.explorer_page_config

C2_Settled ==
    vreq # None =>
        /\ vreq.value.fork_config.network_id = vhist.value.network_id
        /\ vreq.value.virtual_network_config.chain_id =
              IF vhist.value.chain_id_arg = None
              THEN vhist.value.network_id
              ELSE vhist.value.chain_id_arg.value

\* C2: in every reachable request network_id and chain_id are what new and the last
\* chain_id call were given, and chain_id / block_number steps change one field only.
C2_IndependentlySettable ==
    /\ []C2_Settled
    /\ [][C2_ChainIdStep /\ C2_BlockNumberStep]_vars

\* new(_, _, 1), then chain_id(2) and block_number(..), other builders in between.
C2_Witness ==
    /\ vreq # None
    /\ vhist.value.network_id = 1
    /\ vhist.value.chain_id_arg = Some(2)
    /\ vhist.value.last[1] = "base_fee_per_gas"
    /\ vreq.value.fork_config.block_number # None
    /\ vreq.value.virtual_network_config.chain_id # vreq.value.fork_config.network_id

(***************************************************************************)
(* C4: VirtualNetworkConfigResponse::chain_id() returns None when the      *)
(* nested chain_config is absent from the decoded response (the service    *)
(* omitted the key or sent null) and Some(chain_config.chain_id) when it   *)
(* is present; it never yields a default of zero and never the chain id of *)
(* the request or the fork's network id in place of a missing one.         *)
(***************************************************************************)
C4_WireChainConfig ==
    JGet(JGet(wire.value, "virtual_network_config"), "chain_config")

\* C4: chain_id() is None when chain_config is absent and the nested chain id when
\* it is present, never zero by default and never another chain id.
C4_ChainIdAccessor ==
    got_chain_id # None =>
        LET r == got_chain_id.value
            decoded == vnet.value.value.virtual_network_config.chain_config
        IN /\ decoded = None => r = None
           /\ decoded # None => r = Some(decoded.value.chain_id)
           /\ C4_WireChainConfig \in {JAbsent, JNull} => r = None
           /\ C4_WireChainConfig \notin {JAbsent, JNull} =>
                 r = Some(JGet(C4_WireChainConfig, "chain_id").n)
           /\ r \in {None} \cup {Some(c) : c \in ChainIds}

\* The service omitted chain_config although the request asked for chain id 2 on
\* a fork of network 1, and the accessor was called.
C4_Witness ==
    /\ got_chain_id = Some(None)
    /\ C4_WireChainConfig = JAbsent
    /\ sent.value.virtual_network_config.chain_id = 2
    /\ vnet.value.value.fork_config.network_id = 1

(***************************************************************************)
(* C3: public() returns the url of the first endpoint, in list order,      *)
(* whose name contains "public" when letter case is ignored, and admin()   *)
(* does the same for "admin"; each returns None exactly when no name       *)
(* contains its token.  On [{"Admin RPC", u1}, {"Public RPC", u2}]         *)
(* public() is u2 and admin() is u1.                                       *)
(***************************************************************************)
C3_SameLetter(a, b) ==
    \/ a = b
    \/ \E k \in 1..Len(UpperCase) : {a, b} = {UpperCase[k], LowerCase[k]}

C3_NameHasToken(name, token) ==
    \E off \in 0..(Len(name) - Len(token)) :
        \A k \in 1..Len(token) : C3_SameLetter(name[off + k], token[k])

C3_Expected(wireList, token) ==
    LET hits == {i \in 1..Len(wireList) :
                    C3_NameHasToken(JGet(wireList[i], "name").s, token)}
    IN IF hits = {} THEN None
       ELSE Some(JGet(wireList[CHOOSE i \in hits : \A k \in hits : i <= k], "url").s)

\* C3: public() and admin() return the url of the first endpoint whose name holds
\* the token with case ignored, and None exactly when no name holds it.
C3_FirstMatchWins ==
    /\ got_public # None =>
          /\ got_public.value = C3_Expected(rpcs_wire.value.items, PublicToken)
          /\ (got_public.value = None) <=>
                 \A i \in 1..Len(rpcs_wire.value.items) :
                    ~C3_NameHasToken(JGet(rpcs_wire.value.items[i], "name").s, PublicToken)
    /\ got_admin # None =>
          /\ got_admin.value = C3_Expected(rpcs_wire.value.items, AdminToken)
          /\ (got_admin.value = None) <=>
                 \A i \in 1..Len(rpcs_wire.value.items) :
                    ~C3_NameHasToken(JGet(rpcs_wire.value.items[i], "name").s, AdminToken)
    /\ (/\ rpcs # None
        /\ rpcs.value = Ok(Some([endpoints |->
                <<[name |-> AdminRPC, url |-> <<"u", "1">>],
                  [name |-> PublicRPC, url |-> <<"u", "2">>]>>])))
          => /\ got_public # None => got_public.value = Some(<<"u", "2">>)
             /\ got_admin # None => got_admin.value = Some(<<"u", "1">>)

\* Both accessors were called on [{"Admin RPC", u1}, {"Public RPC", u2}].
C3_Witness ==
    /\ rpcs # None
    /\ rpcs.value = Ok(Some([endpoints |->
            <<[name |-> AdminRPC, url |-> <<"u", "1">>],
              [name |-> PublicRPC, url |-> <<"u", "2">>]>>]))
    /\ got_public = Some(Some(<<"u", "2">>))
    /\ got_admin = Some(Some(<<"u", "1">>))

(***************************************************************************)
(* C8: single(id) is the same request as multiple([id]) and serializes to  *)
(* the list shape {"ids": [id]}; multiple(ids) keeps the ids it is given,  *)
(* in number and in order.                                                 *)
(***************************************************************************)
C8_SingleIsListOfOne ==
    del_call # None =>
        /\ del_call.value.ctor = "single" =>
              /\ del_req.value = DeleteVNetsRequest_multiple(<<del_call.value.arg>>)
              /\ ser_DeleteVNetsRequest(del_req.value)
                    = ser_DeleteVNetsRequest(
                          DeleteVNetsRequest_multiple(<<del_call.value.arg>>))
              /\ ser_DeleteVNetsRequest(del_req.value).fields.ids.items
                    = <<JStr(del_call.value.arg)>>
        /\ del_call.value.ctor = "multiple" =>
              /\ Len(del_req.value.ids) = Len(del_call.value.arg)
              /\ \A i \in 1..Len(del_call.value.arg) :
                    del_req.value.ids[i] = del_call.value.arg[i]

\* single("abc") was called.
C8_Witness ==
    /\ del_call = Some([ctor |-> "single", arg |-> "abc"])
    /\ del_req # None

(***************************************************************************)
(* C5: value_wei(w) stores "0x" followed by lower-case hex digits without  *)
(* leading zeros; reading the digits back as a hexadecimal number gives w; *)
(* value_wei(0) stores exactly "0x0".                                      *)
(***************************************************************************)
C5_DigitValue(c) == (CHOOSE k \in 1..16 : HexDigits[k] = c) - 1

RECURSIVE C5_ParseHex(_)
C5_ParseHex(digits) ==
    IF digits = <<>> THEN 0
    ELSE 16 * C5_ParseHex(SubSeq(digits, 1, Len(digits) - 1))
            + C5_DigitValue(digits[Len(digits)])

\* C5: value_wei(w) stores "0x" and the lower-case hex digits of w without leading
\* zeros, which read back as w; value_wei(0) stores "0x0".
C5_ValueWeiRoundTrip ==
    wei_arg # None =>
        /\ sim_req.value.value # None
        /\ LET str == sim_req.value.value.value
               digits == SubSeq(str, 3, Len(str))
           IN /\ Len(str) >= 3
              /\ SubSeq(str, 1, 2) = <<"0", "x">>
              /\ \A i \in 1..Len(digits) : \E k \in 1..16 : HexDigits[k] = digits[i]
              /\ Len(digits) > 1 => digits[1] # "0"
              /\ C5_ParseHex(digits) = wei_arg.value
              /\ wei_arg.value = 0 => str = <<"0", "x", "0">>
              /\ wei_arg.value = 171 => str = <<"0", "x", "a", "b">>

\* value_wei(256) was called: three digits, the last two of them zero.
C5_Witness ==
    /\ wei_arg = Some(256)
    /\ sim_req.value.value = Some(<<"0", "x", "1", "0", "0">>)

(***************************************************************************)
(* C6: overrides accumulate per address.  After any sequence of override   *)
(* calls state_objects has an entry for every address given to a call, the *)
(* entry holds every slot inserted for the address with the value last     *)
(* inserted there, and the balance and the code last set for it; nothing   *)
(* else is in it, so a call for one address leaves the others' entries.    *)
(***************************************************************************)
C6_OverridesAccumulate ==
    /\ ov_touched = {} => sim_req = None \/ sim_req.value.state_objects = None
    /\ ov_touched # {} =>
          /\ sim_req.value.state_objects # None
          /\ LET objs == sim_req.value.state_objects.value
             IN /\ DOMAIN objs = ov_touched
                /\ \A a \in ov_touched :
                      /\ \A b \in Balances :
                            (<<a, b>> \in ov_balance) <=> (objs[a].balance = Some(b))
                      /\ (objs[a].balance = None) <=>
                            (\A b \in Balances : <<a, b>> \notin ov_balance)
                      /\ \A c \in Codes :
                            (<<a, c>> \in ov_code) <=> (objs[a].code = Some(c))
                      /\ (objs[a].code = None) <=>
                            (\A c \in Codes : <<a, c>> \notin ov_code)
                      /\ \A s \in Slots, v \in SlotValues :
                            (<<a, s, v>> \in ov_storage) <=>
                               /\ objs[a].storage # None
                               /\ s \in DOMAIN objs[a].storage.value
                               /\ objs[a].storage.value[s] = v
                      /\ objs[a].nonce = None

\* Two slots, a balance and a code were given for one address and a slot for the
\* other spelling of it.
C6_Witness ==
    /\ {<<"0xaaaa", "0x0", "0x1">>, <<"0xaaaa", "0x1", "0x2">>,
         <<"0xAAAA", "0x0", "0x2">>} \subseteq ov_storage
    /\ \E b \in Balances : <<"0xaaaa", b>> \in ov_balance
    /\ \E c \in Codes : <<"0xaaaa", c>> \in ov_code
    /\ sim_req.value.state_objects # None
    /\ DOMAIN sim_req.value.state_objects.value["0xaaaa"].storage.value = {"0x0", "0x1"}

(***************************************************************************)
(* C7: simulate_bundle makes exactly one call, a POST to /simulate-bundle  *)
(* whose body is the caller's bundle with all its transactions in the      *)
(* caller's order, and returns what the transport answered, unmodified.    *)
(***************************************************************************)
C7_BundleIsOneRequest ==
    (api_call # None /\ api_call.value.op = "simulate_bundle") =>
        /\ Len(transport_log) = 1
        /\ transport_log[1].method = "POST"
        /\ transport_log[1].path = <<"/", "s", "i", "m", "u", "l", "a", "t", "e", "-", "b", "u", "n", "d", "l", "e">>
        /\ Len(transport_log[1].payload.simulations)
              = Len(api_call.value.arg.simulations)
        /\ \A i \in 1..Len(api_call.value.arg.simulations) :
              transport_log[1].payload.simulations[i]
                  = api_call.value.arg.simulations[i]
        /\ transport_log[1].payload.network_id = api_call.value.arg.network_id
        /\ api_pc = "done" => api_result = service_reply

\* A bundle of three with the reverting transaction in the middle and a repeated
\* one was simulated and answered.
C7_Witness ==
    /\ api_pc = "done"
    /\ api_call # None
    /\ api_call.value.op = "simulate_bundle"
    /\ api_call.value.arg.simulations = <<"tx3", "tx2-reverts", "tx3">>
    /\ api_result = Some(Ok("body-1"))

(***************************************************************************)
(* C9: get, info, share, unshare and trace put the identifier into the     *)
(* route as one path segment: whatever characters the id holds, the route  *)
(* has as many "/" separators as the route of a plain id and no "?".       *)
(***************************************************************************)
C9_Count(str, ch) == Cardinality({i \in 1..Len(str) : str[i] = ch})

C9_PlainSlashes(op) == IF op \in {"get", "trace"} THEN 2 ELSE 3

\* C9: the route of get, info, share, unshare and trace has as many "/" as the
\* route of a plain id, and no "?", whatever the id (the empty id included).
C9_IdIsOneSegment ==
    (api_call # None
        /\ api_call.value.op \in {"get", "info", "share", "unshare", "trace"}) =>
        /\ Len(transport_log) = 1
        /\ C9_Count(transport_log[1].path, "/") = C9_PlainSlashes(api_call.value.op)
        /\ C9_Count(transport_log[1].path, "/")
              = C9_Count(SimulationApi_calls(api_call.value.op, <<"a">>)[1].path, "/")
        /\ C9_Count(transport_log[1].path, "?") = 0
        /\ C9_Count(transport_log[1].path, " ") = 0
        /\ C9_Count(transport_log[1].path, "e'") = 0

\* get was invoked with the id "/?".
C9_Witness ==
    /\ api_call # None
    /\ api_call.value.op = "get"
    /\ api_call.value.arg = <<"/", "?">>
    /\ Len(transport_log) = 1

(***************************************************************************)
(* C10: share(id) makes one POST with the body {} to                       *)
(* /simulations/{encoded id}/share.  When the call succeeds it returns     *)
(* https://dashboard.tenderly.co/shared/simulation/{encoded id}, whatever  *)
(* body the service sent; when it fails it returns the transport's error.  *)
(***************************************************************************)
C10_ShareUrl ==
    (api_call # None /\ api_call.value.op = "share") =>
        LET id == api_call.value.arg
        IN /\ Len(transport_log) = 1
           /\ transport_log[1].method = "POST"
           /\ transport_log[1].payload.j = "obj"
           /\ DOMAIN transport_log[1].payload.fields = {}
           /\ transport_log[1].path
                 = <<"/", "s", "i", "m", "u", "l", "a", "t", "i", "o", "n", "s", "/">> \o encode_path_segment(id) \o <<"/", "s", "h", "a", "r", "e">>
           /\ api_pc = "done" =>
                 /\ service_reply.value.tag = "Ok" =>
                       api_result.value =
                           Ok(<<"h", "t", "t", "p", "s", ":", "/", "/", "d", "a", "s", "h", "b", "o", "a", "r", "d", ".", "t", "e", "n", "d", "e", "r", "l", "y", ".", "c", "o">>
                              \o <<"/", "s", "h", "a", "r", "e", "d", "/", "s", "i", "m", "u", "l", "a", "t", "i", "o", "n", "/">>
                              \o encode_path_segment(id))
                 /\ service_reply.value.tag = "Err" =>
                       api_result.value = service_reply.value
                 /\ id = <<"a", "/">> /\ service_reply.value.tag = "Ok" =>
                       SubSeq(api_result.value.value,
                              Len(api_result.value.value) - 3,
                              Len(api_result.value.value)) = <<"a", "%", "2", "F">>

\* share("a/") succeeded.
C10_Witness ==
    /\ api_pc = "done"
    /\ api_call # None
    /\ api_call.value.op = "share"
    /\ api_call.value.arg = <<"a", "/">>
    /\ service_reply = Some(Ok("body-2"))
    /\ api_result # None
    /\ api_result.value.tag = "Ok"

\* share("a/") failed.
C10_WitnessFailure ==
    /\ api_pc = "done"
    /\ api_call # None
    /\ api_call.value.op = "share"
    /\ service_reply = Some(Err("rejected"))
    /\ api_result = Some(Err("rejected"))

(***************************************************************************)
(* C11: every operation of the simulation API makes exactly one call to    *)
(* the transport whatever its arguments (malformed addresses, per_page     *)
(* above 100, empty ids, empty bundles), never a second one once it is     *)
(* suspended or has returned, and when the call fails it returns that      *)
(* failure as an error value.                                              *)
(***************************************************************************)
C11_OneCall ==
    /\ api_pc = "idle" => transport_log = <<>>
    /\ api_pc # "idle" =>
          /\ api_call # None
          /\ Len(transport_log) = 1
    /\ api_pc = "done" =>
          /\ api_result # None
          /\ api_result.value.tag \in {"Ok", "Err"}
          /\ service_reply.value.tag = "Err" => api_result.value = service_reply.value
          /\ service_reply.value.tag = "Ok" => api_result.value.tag = "Ok"

C11_NoSecondCall ==
    /\ api_pc # "idle" => transport_log' = transport_log
    /\ api_pc = "done" => UNCHANGED apiVars

\* C11: one transport call per operation, none added after it, failures returned.
C11_OneCallNoRetry ==
    /\ []C11_OneCall
    /\ [][C11_NoSecondCall]_vars

\* list(1, 101) was invoked, the transport failed, and the failure was returned
\* after a single call.
C11_Witness ==
    /\ api_pc = "done"
    /\ api_call = Some([op |-> "list", arg |-> <<1, 101>>])
    /\ Len(transport_log) = 1
    /\ transport_log[1].payload.perPage = 101
    /\ service_reply = Some(Err("transport"))
    /\ api_result = Some(Err("transport"))

(***************************************************************************)
(* C12: max_fee_per_gas(fee) and max_priority_fee_per_gas(fee) set the     *)
(* transaction type to 2.  Right after either call transaction_type is     *)
(* Some(2), whatever it was before, the fee field of the call holds the    *)
(* fee, and every other field is as it was.                                *)
(***************************************************************************)
C12_OthersUnchanged ==
    /\ vsim'.value.from = vsim.value.from
    /\ vsim'.value.to = vsim.value.to
    /\ vsim'.value.input = vsim.value.input
    /\ vsim'.value.value = vsim.value.value
    /\ vsim'.value.gas = vsim.value.gas
    /\ vsim'.value.gas_price = vsim.value.gas_price
    /\ vsim'.value.nonce = vsim.value.nonce

C12_MaxFeeStep ==
    (vsim # None /\ vsim_hist'.value.last[1] = "max_fee_per_gas") =>
        /\ vsim'.value.transaction_type = Some(2)
        /\ vsim'.value.max_fee_per_gas = Some(vsim_hist'.value.last[2])
        /\ vsim'.value.max_priority_fee_per_gas = vsim.value.max_priority_fee_per_gas
        /\ C12_OthersUnchanged

C12_MaxPriorityFeeStep ==
    (vsim # None /\ vsim_hist'.value.last[1] = "max_priority_fee_per_gas") =>
        /\ vsim'.value.transaction_type = Some(2)
        /\ vsim'.value.max_priority_fee_per_gas = Some(vsim_hist'.value.last[2])
        /\ vsim'.value.max_fee_per_gas = vsim.value.max_fee_per_gas
        /\ C12_OthersUnchanged

\* C12: a fee setter step leaves transaction_type = Some(2) and its fee stored, and
\* changes nothing else.
C12_FeeSetsTypeTwo ==
    [][C12_MaxFeeStep /\ C12_MaxPriorityFeeStep]_vars

\* transaction_type(0) was called and then max_priority_fee_per_gas(..): the type
\* is 2 again.
C12_Witness ==
    /\ vsim # None
    /\ vsim_hist.value.last[1] = "max_priority_fee_per_gas"
    /\ vsim_hist.value.type_arg = Some(0)
    /\ vsim.value.transaction_type = Some(2)
    /\ vsim.value.max_fee_per_gas = None
    /\ vsim.value.nonce # None

(***************************************************************************)
(* C13: in every request built from new(..), when a fee field is set the   *)
(* transaction type is set too: it is 2 unless transaction_type(t) was     *)
(* called after the last fee setter, and then it is t.  A fee field, once  *)
(* set, is never cleared.                                                  *)
(***************************************************************************)
C13_FeeSet ==
    \/ vsim.value.max_fee_per_gas # None
    \/ vsim.value.max_priority_fee_per_gas # None

C13_TypeFollowsFees ==
    (vsim # None /\ C13_FeeSet) =>
        /\ vsim.value.transaction_type # None
        /\ vsim.value.transaction_type =
              IF vsim_hist.value.type_after_fee = None
              THEN Some(2)
              ELSE vsim_hist.value.type_after_fee
        /\ vsim.value.transaction_type # Some(2) =>
              vsim_hist.value.type_after_fee # None

C13_FeesStay ==
    vsim # None =>
        /\ vsim.value.max_fee_per_gas # None => vsim'.value.max_fee_per_gas # None
        /\ vsim.value.max_priority_fee_per_gas # None =>
              vsim'.value.max_priority_fee_per_gas # None

\* C13: fee fields imply a transaction type, 2 unless overridden after the last fee
\* setter; fee fields are never cleared.
C13_FeesImplyType ==
    /\ []C13_TypeFollowsFees
    /\ [][C13_FeesStay]_vars

\* Both fees were set, then transaction_type(0), then other builders: the request
\* carries EIP-1559 fees with type 0.
C13_Witness ==
    /\ vsim # None
    /\ vsim.value.max_fee_per_gas # None
    /\ vsim.value.max_priority_fee_per_gas # None
    /\ vsim_hist.value.type_after_fee = Some(0)
    /\ vsim.value.transaction_type = Some(0)
    /\ vsim_hist.value.last[1] = "gas"

====
